---- MODULE Spec2Model ----
(***************************************************************************)
(* Model of the Chord simulator (package chord): the identifier space      *)
(* (bigIntIdentifier.go), the bootstrap of the ring with its predecessor   *)
(* links and finger tables, and the iterative query router (simulator.go). *)
(*                                                                         *)
(* A *Node is modelled by its position in sim.sortedNodes once the         *)
(* creation loop is over (no node is inserted afterwards, so positions are *)
(* stable); 0 stands for nil.  Positions are 1-based, Go indices 0-based.  *)
(***************************************************************************)
EXTENDS Integers, Sequences, FiniteSets, TLC

\* Bounds of the exploration.
MaxBits == 3
MaxNodes == 3
MaxHops == 7
RingBits == 2
MaxQueries == 2
\* Capacity of the channel sem (100 in RunSimulation), scaled down
SemCap == 1

VARIABLES
    bits,         \* bigIntIdentifierSpace.bitLength (m)
    numNodes,     \* NewSimulator's numNodes argument
    iter,         \* loop counter i of the creation loop of NewSimulator
    nodeID,       \* ID of the node made in the last creation iteration (-1: none)
    sortedNodes,  \* sim.sortedNodes
    err,          \* the error NewSimulator returns
    pc,           \* where the program is
    originNode,   \* Query's argument node (0: no query)
    q,            \* the QueryResult under construction: targetID, hops
    currentNode,  \* Query's local currentNode (0: no query)
    numQueries,   \* RunSimulation's numQueries argument (K)
    runPC,        \* where the body of RunSimulation is
    spawned,      \* loop counter i of the spawning loop of RunSimulation
    sem,          \* number of elements in the channel sem
    wg,           \* counter of the WaitGroup
    processedQueries, \* RunSimulation's local processedQueries
    res,          \* the SimulationStats under construction
    lock,         \* res.lock: the unit holding it (0: unlocked)
    units,        \* the goroutines of the run: position and locals of each
    randSrc,      \* the stream of the seeded source of math/rand
    randPos,      \* number of values drawn from the source since seeding
    cbLog,        \* the calls of cb made so far
    prevRes       \* the SimulationStats the previous run returned

runVars == <<numQueries, runPC, spawned, sem, wg, processedQueries, res, lock,
             units, randSrc, randPos, cbLog, prevRes>>

vars == <<bits, numNodes, iter, nodeID, sortedNodes, err, pc, originNode, q,
          currentNode, runVars>>

----------------------------------------------------------------------------
\* Identifier space and identifiers

RECURSIVE Pow2(_)
Pow2(n) == IF n = 0 THEN 1 ELSE 2 * Pow2(n - 1)

\* bigIntIdentifierSpace.count = 2^bits
Count(b) == Pow2(b)

\* The values bigIntIdentifierSpace.Random can return: r mod count
RandomIDs(b) == 0 .. (Count(b) - 1)

\* Variant: the sum is not reduced modulo count
ComputeFingerTableTargetNoMod(n, i, b) == Pow2(i) + n

ComputeFingerTableTarget(n, i, b) == (Pow2(i) + n) % Count(b)

Equal(a, b) == a = b

LessThan(a, b) == a < b

\* Variant: the arc is open at its end
IsBetweenOpenEnd(a, from, to) ==
    IF from <= to
    THEN a < to /\ a >= from
    ELSE a < to \/ a >= from

IsBetween(a, from, to) ==
    IF from <= to
    THEN a <= to /\ a >= from
    ELSE a <= to \/ a >= from

----------------------------------------------------------------------------
\* sort.Search(n, f): the smallest index in [0, n) at which f is true, by
\* binary search; f is given as a function on 0 .. n-1.

RECURSIVE SearchLoop(_, _, _)
SearchLoop(i, j, f) ==
    IF i < j
    THEN LET h == (i + j) \div 2
         IN  IF ~f[h] THEN SearchLoop(h + 1, j, f) ELSE SearchLoop(i, h, f)
    ELSE i

Search(n, f) == SearchLoop(0, n, f)

----------------------------------------------------------------------------
\* Ring

NewNode(id) ==
    [ID |-> id, FingerTable |-> <<>>, Predecessor |-> 0,
     inDegree |-> 0, numQueriesReceived |-> 0]

InsertAt(arr, i, node) ==
    [k \in 1 .. (Len(arr) + 1) |->
        IF k <= i THEN arr[k] ELSE IF k = i + 1 THEN node ELSE arr[k - 1]]

\* insertSorted returns the pair (array, ok)
insertSorted(arr, node) ==
    LET l == Len(arr)
        i == Search(l, [k \in 0 .. (l - 1) |-> LessThan(node.ID, arr[k + 1].ID)])
    IN  IF l = 0 THEN <<(<<node>>), TRUE>>
        ELSE IF i = l THEN <<Append(arr, node), TRUE>>
        ELSE IF i < l - 1 /\ Equal(arr[i + 1].ID, arr[i + 2].ID) THEN <<arr, FALSE>>
        ELSE <<InsertAt(arr, i, node), TRUE>>

\* Variant: the search stops at the first node whose id is not below id
successorAtOrAfter(nodes, id) ==
    LET l == Len(nodes)
        i == Search(l, [k \in 0 .. (l - 1) |-> ~LessThan(nodes[k + 1].ID, id)])
    IN  IF i = l THEN 1 ELSE i + 1

\* Variant: no wrap to nodes[0] when no node has a bigger id
successorNoWrap(nodes, id) ==
    LET l == Len(nodes)
        i == Search(l, [k \in 0 .. (l - 1) |-> LessThan(id, nodes[k + 1].ID)])
    IN  IF i = l THEN l ELSE i + 1

\* successor returns the position of the node it returns
successor(nodes, id) ==
    LET l == Len(nodes)
        i == Search(l, [k \in 0 .. (l - 1) |-> LessThan(id, nodes[k + 1].ID)])
    IN  IF i = l THEN 1 ELSE i + 1

----------------------------------------------------------------------------
\* Bootstrap: the second loop of NewSimulator

\* Variant: the index i-1 is not wrapped
PredecessorOfNoWrap(nodes, i) == IF i = 1 THEN 1 ELSE i - 1

\* Predecessor of the node at (1-based) position i
PredecessorOf(nodes, i) == (((i - 1) - 1 + Len(nodes)) % Len(nodes)) + 1

\* Finger table of the node at position i: entry k (1-based) is slot k-1
FingerTableOf(nodes, i, b) ==
    [k \in 1 .. b |->
        LET nextID == ComputeFingerTableTarget(nodes[i].ID, k - 1, b)
        IN  [ID |-> nextID, Node |-> successor(nodes, nextID)]]

\* stats.inDegree of the node at position n once every table is filled:
\* one increment per appended entry whose table was non-empty and whose
\* last entry held another node
InDegreeOf(nodes, n, b) ==
    Cardinality({p \in (1 .. Len(nodes)) \X (2 .. b) :
        LET ft == FingerTableOf(nodes, p[1], b)
        IN  ft[p[2]].Node = n /\ ft[p[2] - 1].Node # n})

Linked(nodes, b) ==
    [i \in 1 .. Len(nodes) |->
        [ID |-> nodes[i].ID,
         FingerTable |-> FingerTableOf(nodes, i, b),
         Predecessor |-> PredecessorOf(nodes, i),
         inDegree |-> InDegreeOf(nodes, i, b),
         numQueriesReceived |-> 0]]

\* TopologicalStats: outDeg of the node at position n, one per finger entry
\* that is the first of the table or holds another node than the entry before
OutDegreeOf(nodes, n) ==
    Cardinality({k \in 1 .. Len(nodes[n].FingerTable) :
        k = 1 \/ nodes[n].FingerTable[k - 1].Node # nodes[n].FingerTable[k].Node})

----------------------------------------------------------------------------
\* Query: the finger selection of one forwarding step

RECURSIVE ForwardFrom(_, _, _, _)
ForwardFrom(nodes, cur, id, i) ==
    IF i < 1 THEN cur
    ELSE LET entry == nodes[cur].FingerTable[i]
         IN  IF IsBetween(entry.ID, nodes[cur].ID, id)
             THEN entry.Node
             ELSE ForwardFrom(nodes, cur, id, i - 1)

\* Variant: the farthest finger is taken, on the arc to the target or not
ForwardFarthest(nodes, cur, id) ==
    IF Len(nodes[cur].FingerTable) = 0 THEN cur
    ELSE nodes[cur].FingerTable[Len(nodes[cur].FingerTable)].Node

Forward(nodes, cur, id) == ForwardFrom(nodes, cur, id, Len(nodes[cur].FingerTable))

Last(s) == s[Len(s)]

\* Variant: the exact match of the predecessor is not told apart
ReturnsHereNoBoundary(nodes, cur, id) ==
    LET pred == nodes[nodes[cur].Predecessor]
    IN  \/ Equal(nodes[cur].ID, id)
        \/ IsBetween(id, pred.ID, nodes[cur].ID)

\* The two return statements of the loop body: currentNode is the target
ReturnsHere(nodes, cur, id) ==
    LET pred == nodes[nodes[cur].Predecessor]
    IN  \/ Equal(nodes[cur].ID, id)
        \/ /\ IsBetween(id, pred.ID, nodes[cur].ID)
           /\ ~Equal(pred.ID, id)

\* The value of currentNode at the end of an iteration that does not return
NextNode(nodes, cur, id) ==
    LET pred == nodes[nodes[cur].Predecessor]
    IN  IF IsBetween(id, pred.ID, nodes[cur].ID)
        THEN nodes[cur].Predecessor
        ELSE Forward(nodes, cur, id)

\* Variant: the check is missing
DidNotAdvanceUnchecked(hops, cur) == FALSE

\* The condition of the "Routing did not advance" panic
DidNotAdvance(hops, cur) == Last(hops) = cur

NoQuery == [targetID |-> -1, hops |-> <<>>]

----------------------------------------------------------------------------
\* RunSimulation: data

NoStats ==
    [HopCounts |-> <<>>, AvgHopCount |-> <<0, 1>>,
     QueryReceivedCounts |-> <<>>, AvgQueriesReceived |-> <<0, 1>>]

NoCalls == [perQuery |-> <<>>, final |-> 0]

NoUnit == [pc |-> "idle", target |-> -1, origin |-> 0, hops |-> <<>>,
           tmp |-> 0, progress |-> 0]

\* RunSimulation has not been called
NoRun ==
    /\ numQueries = 0
    /\ runPC = "idle"
    /\ spawned = 0
    /\ sem = 0
    /\ wg = 0
    /\ processedQueries = 0
    /\ res = NoStats
    /\ lock = 0
    /\ units = <<>>
    /\ randSrc = <<0>>
    /\ randPos = 0
    /\ cbLog = NoCalls
    /\ prevRes = NoStats

----------------------------------------------------------------------------
\* The state machine

Init ==
    /\ bits \in 0 .. MaxBits
    /\ numNodes \in 0 .. MaxNodes
    /\ iter = 0
    /\ nodeID = -1
    /\ sortedNodes = <<>>
    /\ err = "nil"
    /\ pc = "create"
    /\ originNode = 0
    /\ q = NoQuery
    /\ currentNode = 0
    /\ NoRun

\* One iteration of the creation loop of NewSimulator
CreateNode ==
    /\ pc = "create"
    /\ iter < numNodes
    /\ \E id \in RandomIDs(bits) :
          LET r == insertSorted(sortedNodes, NewNode(id))
          IN  /\ nodeID' = id
              /\ IF ~r[2]
                 THEN /\ err' = "DuplicateIdentifier"
                      /\ pc' = "failed"
                      /\ UNCHANGED <<sortedNodes, iter>>
                 ELSE /\ sortedNodes' = r[1]
                      /\ iter' = iter + 1
                      /\ UNCHANGED <<err, pc>>
    /\ UNCHANGED <<bits, numNodes, originNode, q, currentNode, runVars>>

\* The linking loop of NewSimulator and its return of the simulator
LinkNodes ==
    /\ pc = "create"
    /\ iter >= numNodes
    /\ sortedNodes' = Linked(sortedNodes, bits)
    /\ pc' = "ready"
    /\ nodeID' = -1
    /\ UNCHANGED <<bits, numNodes, iter, err, originNode, q, currentNode, runVars>>

\* Entry of Query(id, node)
QueryStart ==
    /\ pc = "ready"
    /\ \E id \in RandomIDs(bits), node \in 1 .. Len(sortedNodes) :
          /\ originNode' = node
          /\ q' = [targetID |-> id, hops |-> <<node>>]
          /\ currentNode' = node
    /\ pc' = "query"
    /\ UNCHANGED <<bits, numNodes, iter, nodeID, sortedNodes, err, runVars>>

\* One iteration of the loop of Query
QueryStep ==
    /\ pc = "query"
    /\ Len(q.hops) < MaxHops
    /\ IF ReturnsHere(sortedNodes, currentNode, q.targetID)
       THEN /\ pc' = "returned"
            /\ UNCHANGED <<q, currentNode>>
       ELSE LET next == NextNode(sortedNodes, currentNode, q.targetID)
            IN  /\ currentNode' = next
                /\ IF DidNotAdvance(q.hops, next)
                   THEN /\ pc' = "panic"
                        /\ UNCHANGED q
                   ELSE /\ q' = [q EXCEPT !.hops = Append(@, next)]
                        /\ UNCHANGED pc
    /\ UNCHANGED <<bits, numNodes, iter, nodeID, sortedNodes, err, originNode, runVars>>

\* The caller takes the QueryResult; the simulator is ready for the next query
QueryDone ==
    /\ pc = "returned"
    /\ pc' = "ready"
    /\ originNode' = 0
    /\ q' = NoQuery
    /\ currentNode' = 0
    /\ UNCHANGED <<bits, numNodes, iter, nodeID, sortedNodes, err, runVars>>

Next ==
    \/ CreateNode
    \/ LinkNodes
    \/ QueryStart
    \/ QueryStep
    \/ QueryDone

Spec == Init /\ [][Next]_vars

----------------------------------------------------------------------------
\* Queries on every network of pairwise distinct ids of an identifier space

RECURSIVE RingOf(_)
\* The ring the creation loop builds when the ids of S are drawn, lowest first
RingOf(S) ==
    IF S = {} THEN <<>>
    ELSE LET x == CHOOSE x \in S : \A y \in S : y <= x
         IN  insertSorted(RingOf(S \ {x}), NewNode(x))[1]

\* NewSimulator has returned a network of N >= 1 distinct ids
RingInit ==
    /\ bits \in 0 .. RingBits
    /\ sortedNodes \in {Linked(RingOf(S), bits) : S \in (SUBSET RandomIDs(bits)) \ {{}}}
    /\ numNodes = Len(sortedNodes)
    /\ iter = numNodes
    /\ nodeID = -1
    /\ err = "nil"
    /\ pc = "ready"
    /\ originNode = 0
    /\ q = NoQuery
    /\ currentNode = 0
    /\ NoRun

RingNext ==
    \/ QueryStart
    \/ QueryStep
    \/ QueryDone

RingSpec == RingInit /\ [][RingNext]_vars

----------------------------------------------------------------------------
\* RunSimulation: the values the goroutines compute

\* Number of rand.Intn calls Random makes to build the address it hashes
AddressDraws == 5

\* The value the seeded source hands out at position pos of its stream
RandAt(src, pos) == src[(pos % Len(src)) + 1]

\* rand.Intn(n) on the value raw of the source
Intn(raw, n) == raw % n

RECURSIVE Address(_, _, _)
\* The n components of the address Random builds, from position pos of the source
Address(src, pos, n) ==
    IF n = 0 THEN <<>>
    ELSE <<Intn(RandAt(src, pos), 256)>> \o Address(src, pos + 1, n - 1)

RECURSIVE Sum(_)
\* The digest of an address, as a number
Sum(address) ==
    IF address = <<>> THEN 0 ELSE address[1] + Sum(Tail(address))

\* Random: the digest of a random address, truncated to the identifier space
Random(src, pos, b) == Sum(Address(src, pos, AddressDraws)) % Count(b)

\* m[k]++ on a Go map: a missing key reads as zero
\* Variant: every key reads as zero
MapGetZero(m, k) == 0

MapGet(m, k) == IF k \in DOMAIN m THEN m[k] ELSE 0

MapPut(m, k, v) == [x \in (DOMAIN m) \cup {k} |-> IF x = k THEN v ELSE m[x]]

RECURSIVE QueryFrom(_, _, _, _)
\* The loop of Query from currentNode cur with the hops made so far
QueryFrom(nodes, id, cur, hops) ==
    IF Len(hops) > MaxHops THEN [status |-> "cut", hops |-> hops]
    ELSE IF ReturnsHere(nodes, cur, id) THEN [status |-> "returned", hops |-> hops]
    ELSE LET next == NextNode(nodes, cur, id)
         IN  IF DidNotAdvance(hops, next)
             THEN [status |-> "panic", hops |-> hops]
             ELSE QueryFrom(nodes, id, next, Append(hops, next))

\* Query(id, node)
Query(nodes, id, node) == QueryFrom(nodes, id, node, <<node>>)

\* The reset loop at the start of a run: the counters are left as they are
ResetStatsSkipped(nodes) == nodes

\* The reset loop at the start of a run: the whole of node.stats is zeroed
ResetAllStats(nodes) ==
    [i \in 1 .. Len(nodes) |->
        [nodes[i] EXCEPT !.numQueriesReceived = 0, !.inDegree = 0]]

\* The reset loop at the start of a run
ResetStats(nodes) ==
    [i \in 1 .. Len(nodes) |-> [nodes[i] EXCEPT !.numQueriesReceived = 0]]

\* The loop that groups the nodes by the number of queries they received
QueryReceivedCountsOf(nodes) ==
    [c \in {nodes[i].numQueriesReceived : i \in 1 .. Len(nodes)} |->
        Cardinality({i \in 1 .. Len(nodes) : nodes[i].numQueriesReceived = c})]

RECURSIVE TotalReceived(_, _)
\* avgQueryReceivedCount after the first n nodes
TotalReceived(nodes, n) ==
    IF n = 0 THEN 0 ELSE TotalReceived(nodes, n - 1) + nodes[n].numQueriesReceived

\* res.lock.Lock() that returns whoever holds the mutex
LockFreeAlways(l) == TRUE

\* res.lock.Lock() returns only when nobody holds the mutex
LockFree(l) == l = 0

\* wg.Wait() that returns at once
WaitDoneAlways(w) == TRUE

\* wg.Wait() returns when the counter is zero
WaitDone(w) == w = 0

\* A send on a channel of one slot less
SendReadyOneLess(n) == n < SemCap - 1

\* A send on sem blocks while the channel is full
SendReady(n) == n < SemCap

\* The networks and seeds the runs are made on
RunNetworks ==
    { [bits |-> 2, ids |-> {2}],
      [bits |-> 2, ids |-> {0, 2}],
      [bits |-> 2, ids |-> {0, 1, 3}] }

RunSeeds == { <<0, 1, 2, 3, 1, 2, 1>>, <<3, 0, 2, 1, 1, 0, 2, 3, 3>> }

simVars == <<bits, numNodes, iter, nodeID, err, pc, originNode, q, currentNode>>

----------------------------------------------------------------------------
\* RunSimulation: the state machine

AllExited == \A u \in 1 .. Len(units) : units[u].pc = "exited"

\* Entry of RunSimulation(k, cb), up to the spawning loop; the caller has
\* seeded math/rand
Enter(k) ==
    /\ numQueries' = k
    /\ units' = [u \in 1 .. k |-> NoUnit]
    /\ wg' = k
    /\ res' = NoStats
    /\ sortedNodes' = ResetStats(sortedNodes)
    /\ processedQueries' = 0
    /\ sem' = 0
    /\ spawned' = 0
    /\ lock' = 0
    /\ randPos' = 0
    /\ cbLog' = NoCalls
    /\ runPC' = "loop"
    /\ UNCHANGED <<simVars, randSrc>>

\* The first call of RunSimulation on the network
RunStart ==
    /\ pc = "ready"
    /\ runPC = "idle"
    /\ \E k \in 0 .. MaxQueries : Enter(k)
    /\ UNCHANGED prevRes

\* The caller keeps the statistics, seeds math/rand as before and calls
\* RunSimulation again with the same numQueries
Rerun ==
    /\ pc = "ready"
    /\ runPC = "returned"
    /\ AllExited
    /\ prevRes = NoStats
    /\ prevRes' = res
    /\ Enter(numQueries)

\* go func() { ... }()
Spawn ==
    /\ runPC = "loop"
    /\ spawned < numQueries
    /\ units' = [units EXCEPT ![spawned + 1].pc = "target"]
    /\ runPC' = "send"
    /\ UNCHANGED <<simVars, sortedNodes, numQueries, spawned, sem, wg,
                   processedQueries, res, lock, randSrc, randPos, cbLog, prevRes>>

\* sem <- struct{}{}
Send ==
    /\ runPC = "send"
    /\ SendReady(sem)
    /\ sem' = sem + 1
    /\ spawned' = spawned + 1
    /\ runPC' = "loop"
    /\ UNCHANGED <<simVars, sortedNodes, numQueries, wg, processedQueries, res,
                   lock, units, randSrc, randPos, cbLog, prevRes>>

\* wg.Wait(), then the averages and the histogram of the received queries
Wait ==
    /\ runPC = "loop"
    /\ spawned >= numQueries
    /\ WaitDone(wg)
    /\ res' = [res EXCEPT
                 !.AvgHopCount = <<@[1], numQueries>>,
                 !.QueryReceivedCounts = QueryReceivedCountsOf(sortedNodes),
                 !.AvgQueriesReceived =
                     <<TotalReceived(sortedNodes, Len(sortedNodes)), Len(sortedNodes)>>]
    /\ runPC' = "final"
    /\ UNCHANGED <<simVars, sortedNodes, numQueries, spawned, sem, wg,
                   processedQueries, lock, units, randSrc, randPos, cbLog, prevRes>>

\* cb(1); return res
Final ==
    /\ runPC = "final"
    /\ cbLog' = [cbLog EXCEPT !.final = @ + 1]
    /\ runPC' = "returned"
    /\ UNCHANGED <<simVars, sortedNodes, numQueries, spawned, sem, wg,
                   processedQueries, res, lock, units, randSrc, randPos, prevRes>>

\* The process has not been ended by a panic
Alive == runPC # "panic"

At(u, l) == Alive /\ u \in 1 .. Len(units) /\ units[u].pc = l

\* target := sim.idSpace.Random() : the components of the address are drawn
\* from the source one after the other
UnitTarget(u) ==
    /\ At(u, "target")
    /\ units' = [units EXCEPT ![u].target = Random(randSrc, randPos, bits),
                              ![u].pc = "origin"]
    /\ randPos' = randPos + AddressDraws
    /\ UNCHANGED <<simVars, sortedNodes, numQueries, runPC, spawned, sem, wg,
                   processedQueries, res, lock, randSrc, cbLog, prevRes>>

\* originatingNode := nodes[rand.Intn(len(nodes))]
UnitOrigin(u) ==
    /\ At(u, "origin")
    /\ units' = [units EXCEPT ![u].origin =
                    Intn(RandAt(randSrc, randPos), Len(sortedNodes)) + 1,
                              ![u].pc = "query"]
    /\ randPos' = randPos + 1
    /\ UNCHANGED <<simVars, sortedNodes, numQueries, runPC, spawned, sem, wg,
                   processedQueries, res, lock, randSrc, cbLog, prevRes>>

\* qres := sim.Query(target, originatingNode), then the atomic add on the
\* counter of the last hop; a panic of Query ends the process. A local of the
\* goroutine goes back to its zero value after its last use.
UnitQuery(u) ==
    /\ At(u, "query")
    /\ LET qres == Query(sortedNodes, units[u].target, units[u].origin)
       IN  /\ qres.status # "cut"
           /\ IF qres.status = "panic"
              THEN /\ runPC' = "panic"
                   /\ UNCHANGED <<sortedNodes, units>>
              ELSE /\ sortedNodes' = [sortedNodes EXCEPT
                          ![Last(qres.hops)].numQueriesReceived = @ + 1]
                   /\ units' = [units EXCEPT ![u] =
                          [@ EXCEPT !.hops = qres.hops, !.target = -1,
                                    !.origin = 0, !.pc = "lock"]]
                   /\ UNCHANGED runPC
    /\ UNCHANGED <<simVars, numQueries, spawned, sem, wg, processedQueries, res,
                   lock, randSrc, randPos, cbLog, prevRes>>

\* res.lock.Lock()
UnitLock(u) ==
    /\ At(u, "lock")
    /\ LockFree(lock)
    /\ lock' = u
    /\ units' = [units EXCEPT ![u].pc = "hopLoad"]
    /\ UNCHANGED <<simVars, sortedNodes, numQueries, runPC, spawned, sem, wg,
                   processedQueries, res, randSrc, randPos, cbLog, prevRes>>

\* res.HopCounts[uint64(hopCount)]++ : the read
UnitHopLoad(u) ==
    /\ At(u, "hopLoad")
    /\ units' = [units EXCEPT ![u].tmp = MapGet(res.HopCounts, Len(units[u].hops) - 1),
                              ![u].pc = "hopStore"]
    /\ UNCHANGED <<simVars, sortedNodes, numQueries, runPC, spawned, sem, wg,
                   processedQueries, res, lock, randSrc, randPos, cbLog, prevRes>>

\* res.HopCounts[uint64(hopCount)]++ : the write
UnitHopStore(u) ==
    /\ At(u, "hopStore")
    /\ res' = [res EXCEPT !.HopCounts =
                  MapPut(@, Len(units[u].hops) - 1, units[u].tmp + 1)]
    /\ units' = [units EXCEPT ![u].tmp = 0, ![u].pc = "avgLoad"]
    /\ UNCHANGED <<simVars, sortedNodes, numQueries, runPC, spawned, sem, wg,
                   processedQueries, lock, randSrc, randPos, cbLog, prevRes>>

\* res.AvgHopCount += float32(hopCount) : the read
UnitAvgLoad(u) ==
    /\ At(u, "avgLoad")
    /\ units' = [units EXCEPT ![u].tmp = res.AvgHopCount[1], ![u].pc = "avgStore"]
    /\ UNCHANGED <<simVars, sortedNodes, numQueries, runPC, spawned, sem, wg,
                   processedQueries, res, lock, randSrc, randPos, cbLog, prevRes>>

\* res.AvgHopCount += float32(hopCount) : the write
UnitAvgStore(u) ==
    /\ At(u, "avgStore")
    /\ res' = [res EXCEPT !.AvgHopCount =
                  <<units[u].tmp + (Len(units[u].hops) - 1), 1>>]
    /\ units' = [units EXCEPT ![u] =
           [@ EXCEPT !.tmp = 0, !.hops = <<>>, !.pc = "unlock"]]
    /\ UNCHANGED <<simVars, sortedNodes, numQueries, runPC, spawned, sem, wg,
                   processedQueries, lock, randSrc, randPos, cbLog, prevRes>>

\* res.lock.Unlock()
UnitUnlock(u) ==
    /\ At(u, "unlock")
    /\ lock' = 0
    /\ units' = [units EXCEPT ![u].pc = "progress"]
    /\ UNCHANGED <<simVars, sortedNodes, numQueries, runPC, spawned, sem, wg,
                   processedQueries, res, randSrc, randPos, cbLog, prevRes>>

\* progress := atomic.AddUint64(&processedQueries, 1)
UnitProgress(u) ==
    /\ At(u, "progress")
    /\ processedQueries' = processedQueries + 1
    /\ units' = [units EXCEPT ![u].progress = processedQueries + 1, ![u].pc = "cb"]
    /\ UNCHANGED <<simVars, sortedNodes, numQueries, runPC, spawned, sem, wg,
                   res, lock, randSrc, randPos, cbLog, prevRes>>

\* cb(float32(progress) / float32(numQueries))
UnitCallback(u) ==
    /\ At(u, "cb")
    /\ cbLog' = [cbLog EXCEPT !.perQuery =
                    MapPut(@, units[u].progress, MapGet(@, units[u].progress) + 1)]
    /\ units' = [units EXCEPT ![u].progress = 0, ![u].pc = "done"]
    /\ UNCHANGED <<simVars, sortedNodes, numQueries, runPC, spawned, sem, wg,
                   processedQueries, res, lock, randSrc, randPos, prevRes>>

\* wg.Done()
UnitDone(u) ==
    /\ At(u, "done")
    /\ wg' = wg - 1
    /\ units' = [units EXCEPT ![u].pc = "release"]
    /\ UNCHANGED <<simVars, sortedNodes, numQueries, runPC, spawned, sem,
                   processedQueries, res, lock, randSrc, randPos, cbLog, prevRes>>

\* <-sem : blocks while the channel is empty; the goroutine ends
UnitRelease(u) ==
    /\ At(u, "release")
    /\ sem > 0
    /\ sem' = sem - 1
    /\ units' = [units EXCEPT ![u].pc = "exited"]
    /\ UNCHANGED <<simVars, sortedNodes, numQueries, runPC, spawned, wg,
                   processedQueries, res, lock, randSrc, randPos, cbLog, prevRes>>

\* One step of the goroutine of query u
UnitStep(u) ==
    \/ UnitTarget(u)
    \/ UnitOrigin(u)
    \/ UnitQuery(u)
    \/ UnitLock(u)
    \/ UnitHopLoad(u)
    \/ UnitHopStore(u)
    \/ UnitAvgLoad(u)
    \/ UnitAvgStore(u)
    \/ UnitUnlock(u)
    \/ UnitProgress(u)
    \/ UnitCallback(u)
    \/ UnitDone(u)
    \/ UnitRelease(u)

\* The body of RunSimulation, on the calling goroutine
RunMain ==
    \/ Spawn
    \/ Send
    \/ Wait
    \/ Final

\* NewSimulator has returned one of the networks; math/rand is seeded
RunInit ==
    /\ \E net \in RunNetworks :
          /\ bits = net.bits
          /\ sortedNodes = Linked(RingOf(net.ids), net.bits)
    /\ numNodes = Len(sortedNodes)
    /\ iter = numNodes
    /\ nodeID = -1
    /\ err = "nil"
    /\ pc = "ready"
    /\ originNode = 0
    /\ q = NoQuery
    /\ currentNode = 0
    /\ numQueries = 0
    /\ runPC = "idle"
    /\ spawned = 0
    /\ sem = 0
    /\ wg = 0
    /\ processedQueries = 0
    /\ res = NoStats
    /\ lock = 0
    /\ units = <<>>
    /\ randSrc \in RunSeeds
    /\ randPos = 0
    /\ cbLog = NoCalls
    /\ prevRes = NoStats

RunNext ==
    \/ RunStart
    \/ RunMain
    \/ \E u \in 1 .. MaxQueries : UnitStep(u)

RunSpec == RunInit /\ [][RunNext]_vars

RerunNext ==
    \/ RunNext
    \/ Rerun

RerunSpec == RunInit /\ [][RerunNext]_vars

\* The caller makes a query of its own while no run is under way
CallerQuery ==
    /\ runPC \in {"idle", "returned"}
    /\ AllExited
    /\ \/ QueryStart
       \/ QueryStep
       \/ QueryDone

\* Queries and runs on one simulator, in any order
WorkloadNext ==
    \/ RerunNext
    \/ CallerQuery

WorkloadSpec == RunInit /\ [][WorkloadNext]_vars

\* The scheduler of Go runs every goroutine that can take a step
FairRunSpec ==
    /\ RunSpec
    /\ WF_vars(RunMain)
    /\ \A u \in 1 .. MaxQueries : WF_vars(UnitStep(u))

----------------------------------------------------------------------------
\* Vocabulary of the properties

Bootstrapped == pc \in {"ready", "query", "returned", "panic"}

\* NewSimulator has returned the simulator and no Query is running
AfterBootstrap == pc = "ready"

InQuery == pc \in {"query", "returned", "panic"}

Positions == 1 .. Len(sortedNodes)

IDsOf(nodes) == {nodes[i].ID : i \in 1 .. Len(nodes)}

StrictlyAscending(nodes) ==
    \A i \in 1 .. (Len(nodes) - 1) : nodes[i].ID < nodes[i + 1].ID

\* Clockwise distance from a to b on the ring of w positions
Dist(a, b, w) == (b - a + w) % w

\* r is responsible for t: the node with id t when there is one, otherwise
\* t lies strictly after r's predecessor and at or before r
Responsible(nodes, r, t, w) ==
    IF t \in IDsOf(nodes)
    THEN nodes[r].ID = t
    ELSE LET p == nodes[nodes[r].Predecessor].ID
         IN  /\ 0 < Dist(p, t, w)
             /\ Dist(p, t, w) <= Dist(p, nodes[r].ID, w)

\* Lowest position whose id is >= t, position 1 when there is none
FirstAtOrAfter(nodes, t) ==
    LET S == {i \in 1 .. Len(nodes) : nodes[i].ID >= t}
    IN  IF S = {} THEN 1 ELSE CHOOSE i \in S : \A j \in S : i <= j

\* Lowest position whose id is > t, position 1 when there is none
FirstAfter(nodes, t) ==
    LET S == {i \in 1 .. Len(nodes) : nodes[i].ID > t}
    IN  IF S = {} THEN 1 ELSE CHOOSE i \in S : \A j \in S : i <= j

RECURSIVE PredWalk(_, _, _)
PredWalk(nodes, n, k) ==
    IF k = 0 THEN n ELSE PredWalk(nodes, nodes[n].Predecessor, k - 1)

----------------------------------------------------------------------------
\* C1: on a network with at least 2 distinct ids, a Query that returns ends
\* at the responsible node: the node whose id is the target when there is
\* one, otherwise the node r with the target strictly after r.Predecessor.ID
\* and at or before r.ID clockwise; with pairwise distinct ids this is the
\* first node at or after the target, whatever the origin.
C1_QueryEndsAtResponsible ==
    (pc = "returned" /\ Cardinality(IDsOf(sortedNodes)) >= 2) =>
        /\ Responsible(sortedNodes, Last(q.hops), q.targetID, Count(bits))
        /\ StrictlyAscending(sortedNodes) =>
              Last(q.hops) = FirstAtOrAfter(sortedNodes, q.targetID)

\* A routed query (two hops or more) for a target that is no node's id and
\* whose responsible node is reached across the wrap of the ring
C1_Witness ==
    /\ pc = "returned"
    /\ StrictlyAscending(sortedNodes)
    /\ Len(sortedNodes) >= 3
    /\ Len(q.hops) >= 3
    /\ q.targetID \notin IDsOf(sortedNodes)
    /\ Last(q.hops) = 1
    /\ originNode # 1

\* C2: on a network of N >= 1 nodes with pairwise distinct ids no Query
\* reaches the "Routing did not advance" panic.
C2_NoRoutingStall ==
    (Len(sortedNodes) >= 1 /\ StrictlyAscending(sortedNodes)) => pc # "panic"

\* C3: in a single-node network every Query returns that node with
\* hop_count = 0, hops holding only the origin.
C3_SingleNodeReturns ==
    (Len(sortedNodes) = 1 /\ pc \in {"returned", "panic"}) =>
        (pc = "returned" /\ q.hops = <<1>>)

\* C4: whenever the id drawn in a creation iteration equals the id of a node
\* already in the ring, NewSimulator fails with DuplicateIdentifier.
C4_DuplicateRejected ==
    [][(pc = "create" /\ iter < numNodes /\ nodeID' \in IDsOf(sortedNodes))
         => (pc' = "failed" /\ err' = "DuplicateIdentifier")]_vars

\* C5: the ids of Nodes() of every simulator NewSimulator returns without
\* error are strictly ascending.
C5_NodesStrictlyAscending ==
    (Bootstrapped /\ err = "nil") => StrictlyAscending(sortedNodes)

\* C6 as stated: every finger entry points to the first ring member whose id
\* is greater than or equal to the entry's target, wrapping to the first node.
C6_FingerAtOrAfter ==
    AfterBootstrap =>
        \A n \in Positions : \A k \in 1 .. Len(sortedNodes[n].FingerTable) :
            LET e == sortedNodes[n].FingerTable[k]
            IN  e.Node = FirstAtOrAfter(sortedNodes, e.ID)

\* C6 amended: every finger entry points to the first node of Nodes() whose
\* id is strictly greater than the entry's target, wrapping to the first
\* node; when the target is the id of a ring node, the entry points past it.
C6_FingerStrictlyAfter ==
    AfterBootstrap =>
        \A n \in Positions : \A k \in 1 .. Len(sortedNodes[n].FingerTable) :
            LET e == sortedNodes[n].FingerTable[k]
            IN  /\ e.Node = FirstAfter(sortedNodes, e.ID)
                /\ (StrictlyAscending(sortedNodes) /\ Len(sortedNodes) >= 2)
                      => sortedNodes[e.Node].ID # e.ID

\* A ring of distinct ids with a finger target that is the id of a ring node
C6_Witness ==
    /\ pc = "ready"
    /\ StrictlyAscending(sortedNodes)
    /\ Len(sortedNodes) >= 3
    /\ \E n \in Positions : \E k \in 1 .. Len(sortedNodes[n].FingerTable) :
          LET e == sortedNodes[n].FingerTable[k]
          IN  /\ e.ID \in IDsOf(sortedNodes)
              /\ e.Node # n
              /\ sortedNodes[e.Node].ID > e.ID

\* C7: on a non-empty sorted ring successor(id) returns a node with the
\* smallest id strictly greater than id, and the minimum-id node when no
\* node has an id strictly greater than id.
C7_SuccessorStrictlyGreater ==
    (pc \in {"create", "ready"} /\ Len(sortedNodes) >= 1) =>
        \A id \in RandomIDs(bits) :
            LET r == sortedNodes[successor(sortedNodes, id)].ID
            IN  IF \E i \in Positions : sortedNodes[i].ID > id
                THEN /\ r > id
                     /\ \A i \in Positions :
                           sortedNodes[i].ID > id => r <= sortedNodes[i].ID
                ELSE \A i \in Positions : r <= sortedNodes[i].ID

\* A ring on which successor both skips a node whose id is the argument and
\* wraps to the minimum-id node
C7_Witness ==
    /\ pc = "ready"
    /\ Len(sortedNodes) >= 3
    /\ StrictlyAscending(sortedNodes)
    /\ \E i \in Positions :
          /\ i < Len(sortedNodes)
          /\ successor(sortedNodes, sortedNodes[i].ID) = i + 1
    /\ successor(sortedNodes, sortedNodes[Len(sortedNodes)].ID) = 1
    /\ sortedNodes[Len(sortedNodes)].ID < Count(bits) - 1

\* C8: after bootstrap every node has exactly m = BitLength() finger entries
\* and the target of entry i is (n.ID + 2^i) mod 2^m, a value in [0, 2^m).
C8_FingerTargets ==
    AfterBootstrap =>
        \A n \in Positions :
            /\ Len(sortedNodes[n].FingerTable) = bits
            /\ \A i \in 0 .. (bits - 1) :
                  LET t == sortedNodes[n].FingerTable[i + 1].ID
                  IN  /\ t = (sortedNodes[n].ID + 2^i) % (2^bits)
                      /\ t >= 0
                      /\ t < 2^bits

\* A node whose finger targets wrap past 0
C8_Witness ==
    /\ pc = "ready"
    /\ bits >= 2
    /\ \E n \in Positions :
          /\ Len(sortedNodes[n].FingerTable) = bits
          /\ sortedNodes[n].FingerTable[bits].ID < sortedNodes[n].ID
          /\ sortedNodes[n].FingerTable[1].ID > sortedNodes[n].ID

\* C9: after bootstrap of N >= 1 nodes, following Predecessor links from any
\* node returns to it after exactly N steps and not earlier, each step going
\* to the previous node of Nodes() (an id not above the current one), the
\* first node going to the last (a maximum id).
C9_PredecessorCycle ==
    (AfterBootstrap /\ Len(sortedNodes) >= 1) =>
        \A n \in Positions :
            /\ PredWalk(sortedNodes, n, Len(sortedNodes)) = n
            /\ \A k \in 1 .. (Len(sortedNodes) - 1) :
                  PredWalk(sortedNodes, n, k) # n
            /\ LET p == sortedNodes[n].Predecessor
               IN  IF n = 1
                   THEN /\ p = Len(sortedNodes)
                        /\ \A j \in Positions :
                              sortedNodes[j].ID <= sortedNodes[p].ID
                   ELSE /\ p = n - 1
                        /\ sortedNodes[p].ID <= sortedNodes[n].ID

\* A bootstrapped ring of at least 3 nodes with distinct ids
C9_Witness ==
    /\ pc = "ready"
    /\ Len(sortedNodes) >= 3
    /\ StrictlyAscending(sortedNodes)
    /\ sortedNodes[1].Predecessor = Len(sortedNodes)

\* C10: at every point of a Query and in its result, hops is non-empty,
\* hops[0] is the origin and no two adjacent hops are the same node.
C10_HopsWellFormed ==
    InQuery =>
        /\ Len(q.hops) >= 1
        /\ q.hops[1] = originNode
        /\ \A k \in 1 .. (Len(q.hops) - 1) : q.hops[k] # q.hops[k + 1]

\* A query that has been forwarded at least twice
C10_Witness ==
    /\ pc = "returned"
    /\ Len(q.hops) >= 3
    /\ q.hops[1] = originNode

----------------------------------------------------------------------------
RECURSIVE SumOver(_, _)
\* Sum of f[i] for i in the finite set S
SumOver(f, S) ==
    IF S = {} THEN 0
    ELSE LET x == CHOOSE x \in S : TRUE
         IN  f[x] + SumOver(f, S \ {x})

\* Finger edges into n: the entries holding n that are the first of their
\* table or follow an entry holding another node
EdgesInto(nodes, n) ==
    {p \in (1 .. Len(nodes)) \X (1 .. Len(nodes[n].FingerTable)) :
        LET ft == nodes[p[1]].FingerTable
        IN  /\ ft[p[2]].Node = n
            /\ (p[2] = 1 \/ ft[p[2] - 1].Node # n)}

\* C14: after bootstrap in_degree(n) is the number of pairs (source, slot i)
\* with source.FingerTable[i].Node = n and i = 0 or FingerTable[i-1].Node
\* another node, so that in-degrees and out-degrees have the same sum.
C14_InDegreeCountsFirstEntry ==
    AfterBootstrap =>
        /\ \A n \in Positions :
              sortedNodes[n].inDegree = Cardinality(EdgesInto(sortedNodes, n))
        /\ SumOver([n \in Positions |-> sortedNodes[n].inDegree], Positions)
              = SumOver([n \in Positions |-> OutDegreeOf(sortedNodes, n)], Positions)

\* C15: NewSimulator returns no simulator when N = 0, m = 0 or N > 2^m, so
\* every simulator it returns has a ring of at least one node.
C15_InvalidParameterRejected ==
    /\ (numNodes = 0 \/ bits = 0 \/ numNodes > Count(bits)) => ~Bootstrapped
    /\ Bootstrapped => Len(sortedNodes) >= 1

----------------------------------------------------------------------------
\* At least 2 nodes, ids pairwise distinct
DistinctRing == Len(sortedNodes) >= 2 /\ StrictlyAscending(sortedNodes)

\* C19: on a network of at least 2 distinct ids every Query terminates with
\* hop_count = len(hops) - 1 at most m: hops never holds more than m + 1
\* nodes, no iteration panics, and every iteration that does not end the
\* loop lengthens hops by one.
C19_HopCountAtMostBits ==
    /\ [](( InQuery /\ DistinctRing) =>
             (Len(q.hops) - 1 <= bits /\ pc # "panic"))
    /\ [][(pc = "query" /\ pc' = "query" /\ DistinctRing)
             => Len(q'.hops) = Len(q.hops) + 1]_vars

\* A query that needed exactly m hops on a ring of more than m + 1 nodes
C19_Witness ==
    /\ pc = "returned"
    /\ DistinctRing
    /\ bits >= 2
    /\ Len(sortedNodes) > bits + 1
    /\ Len(q.hops) - 1 = bits

\* C20 as stated: every hop strictly reduces the clockwise distance from the
\* current node's id to the target id.
C20_HopsStrictlyAdvance ==
    InQuery =>
        \A k \in 1 .. (Len(q.hops) - 1) :
            Dist(sortedNodes[q.hops[k + 1]].ID, q.targetID, Count(bits))
                < Dist(sortedNodes[q.hops[k]].ID, q.targetID, Count(bits))

\* C20 amended: every hop either strictly reduces the clockwise distance to
\* the target or lands on the first node whose id is strictly greater than
\* the target in cyclic order; no node appears twice in hops.
C20_HopsAdvanceOrOvershoot ==
    InQuery =>
        /\ \A k \in 1 .. (Len(q.hops) - 1) :
              \/ Dist(sortedNodes[q.hops[k + 1]].ID, q.targetID, Count(bits))
                    < Dist(sortedNodes[q.hops[k]].ID, q.targetID, Count(bits))
              \/ q.hops[k + 1] = FirstAfter(sortedNodes, q.targetID)
        /\ \A j, k \in 1 .. Len(q.hops) : j # k => q.hops[j] # q.hops[k]

\* A query that overshoots: the hop before the last lands on the first node
\* past the node whose id is the target, farther from the target clockwise
\* than the node it left, and the last hop steps back to the target's node
C20_Witness ==
    /\ pc = "returned"
    /\ DistinctRing
    /\ Len(q.hops) >= 3
    /\ sortedNodes[Last(q.hops)].ID = q.targetID
    /\ q.hops[Len(q.hops) - 1] = FirstAfter(sortedNodes, q.targetID)
    /\ Dist(sortedNodes[q.hops[Len(q.hops) - 1]].ID, q.targetID, Count(bits))
          > Dist(sortedNodes[q.hops[Len(q.hops) - 2]].ID, q.targetID, Count(bits))

----------------------------------------------------------------------------
\* Statistics of a run

UnitsAt(L) == {u \in 1 .. Len(units) : units[u].pc \in L}

\* RunSimulation has passed wg.Wait()
PastWait == runPC \in {"final", "returned"}

SecondRun == prevRes # NoStats

\* C11: once RunSimulation(K) is past wg.Wait(), in the first run and in a
\* second run on the same simulator, the queries_received counters of the
\* nodes sum to exactly K, whatever the interleaving of the query units; while
\* the run goes on they sum to the number of units whose Query has returned.
C11_ReceivedSumIsK ==
    /\ runPC # "idle" =>
          TotalReceived(sortedNodes, Len(sortedNodes)) =
             Cardinality(UnitsAt({"lock", "hopLoad", "hopStore", "avgLoad", "avgStore",
                                  "unlock", "progress", "cb", "done", "release", "exited"}))
    /\ PastWait =>
          /\ TotalReceived(sortedNodes, Len(sortedNodes)) = numQueries
          /\ res.AvgQueriesReceived = <<numQueries, Len(sortedNodes)>>

\* A second run of two or more queries has returned, its queries having ended
\* on more than one node
C11_Witness ==
    /\ SecondRun
    /\ runPC = "returned"
    /\ numQueries >= 2
    /\ Cardinality({i \in Positions : sortedNodes[i].numQueriesReceived > 0}) >= 2

\* Sum of h * m[h] over the keys h of the map m
WeightedSum(m) == SumOver([h \in DOMAIN m |-> h * m[h]], DOMAIN m)

\* C12: no update of the hop statistics is lost. At every moment the
\* frequencies of HopCounts sum to the number of units that have stored their
\* hop count, and the accumulated hop sum plus len(hops) - 1 of the unit that
\* is between its two updates equals the sum of hop_count * frequency; once
\* RunSimulation(K) is past wg.Wait() the frequencies sum to K and AvgHopCount
\* is that sum divided by K.
C12_NoHopUpdateLost ==
    /\ SumOver(res.HopCounts, DOMAIN res.HopCounts) =
          Cardinality(UnitsAt({"avgLoad", "avgStore", "unlock", "progress", "cb",
                               "done", "release", "exited"}))
    /\ WeightedSum(res.HopCounts) =
          res.AvgHopCount[1] +
          SumOver([u \in UnitsAt({"avgLoad", "avgStore"}) |-> Len(units[u].hops) - 1],
                  UnitsAt({"avgLoad", "avgStore"}))
    /\ PastWait =>
          /\ SumOver(res.HopCounts, DOMAIN res.HopCounts) = numQueries
          /\ res.AvgHopCount = <<WeightedSum(res.HopCounts), numQueries>>

\* A run has returned in which two queries took the same number of hops, one
\* or more
C12_Witness ==
    /\ runPC = "returned"
    /\ \E h \in DOMAIN res.HopCounts : h >= 1 /\ res.HopCounts[h] >= 2

\* The units that have been started and have not taken their element back
\* from sem
Executing == UnitsAt({"target", "origin", "query", "lock", "hopLoad", "hopStore",
                      "avgLoad", "avgStore", "unlock", "progress", "cb", "done",
                      "release"})

\* C13: during RunSimulation, at no time are more query units executing
\* (started and their semaphore slot not yet released) than the capacity of
\* the semaphore.
C13_AtMostCapExecuting == Cardinality(Executing) <= SemCap

\* The units whose call of cb has returned
CallbackReturned == UnitsAt({"done", "release", "exited"})

\* C16: cb is called once by each query unit, with processed / K where the
\* values of processed are distinct values of 1..K, so exactly 1..K once the
\* K units have called it; cb(1) is called exactly once more, by the time
\* RunSimulation returns, and only after the K calls of the units have
\* returned.
C16_ProgressCallbacks ==
    /\ \A p \in DOMAIN cbLog.perQuery : p \in 1 .. numQueries /\ cbLog.perQuery[p] = 1
    /\ Cardinality(DOMAIN cbLog.perQuery) = Cardinality(CallbackReturned)
    /\ cbLog.final = IF runPC = "returned" THEN 1 ELSE 0
    /\ PastWait =>
          /\ DOMAIN cbLog.perQuery = 1 .. numQueries
          /\ CallbackReturned = 1 .. numQueries

\* RunSimulation has returned after two or more queries: every unit has called
\* cb, and cb(1) has been called
C16_Witness ==
    /\ runPC = "returned"
    /\ cbLog.final = 1
    /\ numQueries >= 2
    /\ processedQueries = numQueries

\* C17: two executions of RunSimulation(K) on the same network, from the same
\* seed of the random source the query units share, return the same HopCounts
\* and the same QueryReceivedCounts, whatever the interleaving of the units.
C17_SameSeedSameHistograms ==
    (SecondRun /\ runPC = "returned") =>
        /\ res.HopCounts = prevRes.HopCounts
        /\ res.QueryReceivedCounts = prevRes.QueryReceivedCounts

\* The network has nodes of two or more distinct ids
TwoDistinctIDs == Cardinality(IDsOf(sortedNodes)) >= 2

\* C18: on a network with two or more distinct ids, under fair scheduling,
\* every call of RunSimulation(K), K >= 0, returns, wherever it stands: every
\* send on the semaphore has been made (the loop has counted K iterations),
\* the wait group has reached zero, and every one of the K units has taken its
\* element back from the semaphore and exited.
C18_RunReturns ==
    (TwoDistinctIDs /\ runPC \notin {"idle", "returned"})
        ~> (/\ runPC = "returned"
            /\ spawned = numQueries
            /\ wg = 0
            /\ Len(units) = numQueries
            /\ AllExited)

\* A run of more queries than the semaphore has slots has returned and all its
\* units have exited
C18_Witness ==
    /\ TwoDistinctIDs
    /\ numQueries > SemCap
    /\ runPC = "returned"
    /\ AllExited

----------------------------------------------------------------------------
\* The arc test of the identifiers

\* x is met when walking clockwise from `from` to `to`, both ends included, on
\* the circle of w identifiers
OnClosedArc(x, from, to, w) == Dist(from, x, w) <= Dist(from, to, w)

\* C21: IsBetween(x, from, to) is true exactly when x lies on the closed
\* clockwise arc from `from` to `to`: for from <= to exactly when
\* from <= x <= to (for from = to only x = from), for from > to exactly when
\* x <= to or x >= from. Stated for all identifiers of the space, among them
\* the ones Query hands to IsBetween.
C21_IsBetweenClosedArc ==
    \A x \in RandomIDs(bits), from \in RandomIDs(bits), to \in RandomIDs(bits) :
        /\ IsBetween(x, from, to) <=> OnClosedArc(x, from, to, Count(bits))
        /\ from <= to => (IsBetween(x, from, to) <=> (from <= x /\ x <= to))
        /\ from = to => (IsBetween(x, from, to) <=> x = from)
        /\ from > to => (IsBetween(x, from, to) <=> (x <= to \/ x >= from))

\* Query has returned at a node because the target lies on the arc from its
\* predecessor to it, an arc that wraps past 0, the target being neither end
C21_Witness ==
    /\ pc = "returned"
    /\ LET cur  == sortedNodes[currentNode]
           pred == sortedNodes[cur.Predecessor]
       IN  /\ pred.ID > cur.ID
           /\ q.targetID # cur.ID
           /\ q.targetID # pred.ID
           /\ IsBetween(q.targetID, pred.ID, cur.ID)

----------------------------------------------------------------------------
\* The critical section of a query unit

\* The positions of a unit between res.lock.Lock() and res.lock.Unlock()
Locked == {"hopLoad", "hopStore", "avgLoad", "avgStore", "unlock"}

\* C22: at most one query unit is between Lock and Unlock at any time; a unit
\* holds the lock from before its update of HopCounts until after its update
\* of AvgHopCount, without a release in between, and at none of its other
\* positions: not while it draws, runs Query or calls the progress callback.
C22_UpdatesMutuallyExclusive ==
    /\ Cardinality(UnitsAt(Locked)) <= 1
    /\ lock \in 0 .. Len(units)
    /\ \A u \in 1 .. Len(units) : (lock = u) <=> (units[u].pc \in Locked)
    /\ \A u \in UnitsAt({"target", "origin", "query", "progress", "cb"}) : lock # u

\* A unit is between its two updates while another waits for the lock
C22_Witness ==
    \E u \in UnitsAt({"avgLoad"}), v \in UnitsAt({"lock"}) :
        /\ lock = u
        /\ Len(units[v].hops) >= 1

----------------------------------------------------------------------------
\* What one query unit adds to the statistics

\* The counters queries_received of the nodes
Received(nodes) == [i \in 1 .. Len(nodes) |-> nodes[i].numQueriesReceived]

\* Unit u moves from position a to position b in this step
Moves(u, a, b) ==
    /\ u \in 1 .. Len(units)
    /\ u \in 1 .. Len(units')
    /\ units[u].pc = a
    /\ units'[u].pc = b

\* C23: for a fixed network, what a query unit adds to the statistics is a
\* function of its own (target, origin) pair alone, whatever the other units
\* have done or are doing: it adds exactly one to the counter of the node
\* where Query(target, origin) ends on the network as bootstrap left it,
\* exactly one to HopCounts[len(hops) - 1] and exactly len(hops) - 1 to the
\* hop sum, and nothing else of these three changes while the units run. The
\* final HopCounts, hop sum and counters are therefore the sums of the
\* contributions of the K pairs, the same for every interleaving.
C23_ContributionsCommute ==
    [][\A u \in 1 .. MaxQueries :
        /\ Moves(u, "query", "lock") =>
              LET qres == Query(ResetStats(sortedNodes), units[u].target, units[u].origin)
              IN  /\ units'[u].hops = qres.hops
                  /\ Received(sortedNodes') =
                        [Received(sortedNodes) EXCEPT ![Last(qres.hops)] = @ + 1]
                  /\ res' = res
        /\ Moves(u, "hopStore", "avgLoad") =>
              LET h == Len(units[u].hops) - 1
              IN  /\ DOMAIN res'.HopCounts = (DOMAIN res.HopCounts) \cup {h}
                  /\ \A k \in DOMAIN res'.HopCounts :
                        res'.HopCounts[k] =
                           (IF k \in DOMAIN res.HopCounts THEN res.HopCounts[k] ELSE 0)
                           + (IF k = h THEN 1 ELSE 0)
                  /\ res'.AvgHopCount = res.AvgHopCount
                  /\ sortedNodes' = sortedNodes
        /\ Moves(u, "avgStore", "unlock") =>
              /\ res'.AvgHopCount =
                    <<res.AvgHopCount[1] + (Len(units[u].hops) - 1), 1>>
              /\ res'.HopCounts = res.HopCounts
              /\ sortedNodes' = sortedNodes
        /\ (runPC' = runPC /\ ~ Moves(u, "query", "lock")
              /\ ~ Moves(u, "hopStore", "avgLoad") /\ ~ Moves(u, "avgStore", "unlock")
              /\ \A v \in 1 .. MaxQueries : v # u => (v \in 1 .. Len(units) => units'[v] = units[v]))
           => (res' = res /\ sortedNodes' = sortedNodes)
      ]_vars

\* The unit started second has added its hop count, of one hop or more, to
\* both statistics while the unit started first still waits to add its own
C23_Witness ==
    /\ Len(units) >= 2
    /\ units[2].pc \in {"unlock", "progress", "cb", "done", "release", "exited"}
    /\ units[1].pc = "lock"
    /\ Len(units[1].hops) >= 2
    /\ res.AvgHopCount[1] >= 1

----------------------------------------------------------------------------
\* The network after bootstrap

\* The network without the counters of the queries: the node sequence and the
\* ID, Predecessor, FingerTable and in-degree of every node
Topology(nodes) ==
    [i \in 1 .. Len(nodes) |->
        [ID |-> nodes[i].ID, Predecessor |-> nodes[i].Predecessor,
         FingerTable |-> nodes[i].FingerTable, inDegree |-> nodes[i].inDegree]]

\* C24: once bootstrap has completed, no step of Query or of RunSimulation
\* changes the node sequence or the ID, Predecessor, FingerTable or in-degree
\* of a node, so that they stay as bootstrap left them over any number of
\* queries and runs; a query of the caller changes nothing of a node, a run
\* changes only queries_received.
C24_NetworkUnchanged ==
    [][Bootstrapped =>
          /\ Topology(sortedNodes') = Topology(sortedNodes)
          /\ InQuery => sortedNodes' = sortedNodes
          /\ bits' = bits
      ]_vars

\* A second run has left queries on the nodes, and after it a query of the
\* caller has returned
C24_Witness ==
    /\ SecondRun
    /\ runPC = "returned"
    /\ pc = "returned"
    /\ Len(q.hops) >= 2
    /\ \E i \in Positions : sortedNodes[i].numQueriesReceived >= 1

----------------------------------------------------------------------------
\* Out-degrees

\* The nodes the finger table of node n points to
FingerNodes(nodes, n) ==
    {nodes[n].FingerTable[k].Node : k \in 1 .. Len(nodes[n].FingerTable)}

\* C25: on a network of distinct ids, for every node, the out-degree that
\* TopologicalStats counts (finger entries whose node differs from the node of
\* the entry before) is the number of distinct nodes in its finger table: a
\* node does not come back in the table after another node has appeared.
C25_OutDegreeCountsDistinct ==
    (AfterBootstrap /\ StrictlyAscending(sortedNodes)) =>
        \A n \in Positions :
            /\ OutDegreeOf(sortedNodes, n) = Cardinality(FingerNodes(sortedNodes, n))
            /\ \A i \in 1 .. bits, j \in 1 .. bits, k \in 1 .. bits :
                  (i < j /\ j < k /\ sortedNodes[n].FingerTable[i].Node =
                                      sortedNodes[n].FingerTable[k].Node)
                     => sortedNodes[n].FingerTable[j].Node =
                           sortedNodes[n].FingerTable[i].Node

\* A network of distinct ids with a node whose three or more finger entries
\* point to two nodes, one of them in consecutive entries
C25_Witness ==
    /\ AfterBootstrap
    /\ StrictlyAscending(sortedNodes)
    /\ \E n \in Positions :
          /\ Len(sortedNodes[n].FingerTable) >= 3
          /\ OutDegreeOf(sortedNodes, n) = 2
          /\ n \notin FingerNodes(sortedNodes, n)

----------------------------------------------------------------------------
\* Insertion during bootstrap

Ascending(nodes) ==
    \A i \in 1 .. Len(nodes), j \in 1 .. Len(nodes) :
        i < j => nodes[i].ID <= nodes[j].ID

\* C26: in every state reachable during bootstrap, insertSorted rejects the
\* node only if its id is the id of a node already in the sequence: inserting
\* an id that is not present succeeds, keeps the sequence ascending and
\* lengthens it by exactly one; a rejection leaves the sequence unchanged.
C26_RejectsOnlyPresentID ==
    [][(pc = "create" /\ (iter' = iter + 1 \/ pc' = "failed")) =>
          /\ nodeID' \notin IDsOf(sortedNodes) =>
                /\ pc' = "create"
                /\ err' = "nil"
                /\ Ascending(sortedNodes')
                /\ Len(sortedNodes') = Len(sortedNodes) + 1
          /\ pc' = "failed" =>
                /\ nodeID' \in IDsOf(sortedNodes)
                /\ sortedNodes' = sortedNodes
      ]_vars

====
